---- MODULE Spec2Model ----
(***************************************************************************)
(* State machine of the live tutoring session of english_learner:          *)
(*   src/components/LiveSession.tsx  the session component (capture,       *)
(*                                   playback scheduling, interruption,    *)
(*                                   transcript, teardown)                 *)
(*   src/App.tsx                     the application mode machine that     *)
(*                                   mounts and unmounts the session       *)
(* Time is counted in units of 100 ms.  A transcript string is the         *)
(* sequence of the pieces that were concatenated to it.                    *)
(***************************************************************************)
EXTENDS Integers, Sequences, FiniteSets, TLC

(* ------------------------------ bounds --------------------------------- *)
\* audio messages (inbound buffers) of one session
MaxBuffers == 2
\* longest inbound buffer, in clock units
MaxDur == 1
\* last value of the clock
MaxClock == 3
\* interrupted messages of one session
MaxInterrupts == 1
\* capture windows (onaudioprocess callbacks) of one session
MaxWindows == 3
\* clicks on the mute button in one session
MaxToggles == 2
\* transcription events (texts received) in one session
MaxEvents == 3
\* sessions started by the application
MaxSessions == 2

(* ------------------------- program constants --------------------------- *)
\* the delay of the setTimeout in source.onended, 200 ms
GraceWindow == 2

NULL == "null"
CTX == "AudioContext"
STREAM == "MediaStream"
NODE == "AudioNode"
PROMISE == "sessionPromise"
NoError == "none"
ConnectionLost == "Connection lost. Please try again."
ConnectFailed == "Failed to access microphone or connect to API."
UserPrefix == "User: "
TutorPrefix == "Tutor: "
Newline == "\n"

\* the resources a session owns
Resources == {"processor", "source", "stream", "inputContext", "outputContext"}

\* transcription texts a message can carry; "" is the absent (or empty) text
Texts == {"A", "B"}
NoText == ""

VARIABLES
    \* ---- App.tsx
    mode, userPlan, currentScenario, isGeneratingPlan,
    handedOff,          \* the transcript onEndSession was called with
    sessions,           \* LiveSession instances mounted so far
    \* ---- LiveSession.tsx: component state
    mounted, isConnected, error, isMuted, isAiSpeaking,
    \* ---- LiveSession.tsx: refs
    audioContextRef, inputContextRef, streamRef, processorRef, sourceRef,
    sessionRef, nextStartTimeRef, sourcesRef, transcriptRef,
    \* ---- environment of the session
    micRequest,         \* getUserMedia: "none" | "pending" | "granted" | "denied"
    socket,             \* the live connection
    sessionPromise,     \* the promise ai.live.connect returned
    created,            \* resources that were created
    released,           \* how often each resource was disconnected/stopped/closed
    clock,              \* current time, both of the audio clock and of timers
    bufs,               \* inbound audio buffers in arrival order
    timers,             \* deadlines of the pending setTimeout callbacks
    queue,              \* frames waiting on sessionPromise.then
    sent,               \* frames given to session.sendRealtimeInput
    \* ---- history
    windows,            \* capture windows so far
    events,             \* transcription events so far
    interrupts,         \* interrupted messages processed
    toggles,            \* clicks on the mute button
    cleanups,           \* calls of cleanup()
    closedEarly,        \* cleanup() ran while connectToLiveApi was suspended
    scheduledSince,     \* buffers scheduled since the last interruption (or the start)
    fired,              \* setTimeout callbacks of onended that have run
    justCleaned         \* the step taken last was a call of cleanup()

appVars == <<mode, userPlan, currentScenario, isGeneratingPlan, handedOff, sessions>>
uiVars == <<isConnected, error, isMuted, isAiSpeaking>>
refVars == <<audioContextRef, inputContextRef, streamRef, processorRef, sourceRef, sessionRef>>
connVars == <<micRequest, socket, sessionPromise>>
resVars == <<created, released>>
capVars == <<queue, sent, windows>>
histVars == <<events, interrupts, toggles, cleanups, closedEarly, scheduledSince,
              fired>>

vars == <<mode, userPlan, currentScenario, isGeneratingPlan, handedOff, sessions,
          mounted, isConnected, error, isMuted, isAiSpeaking,
          audioContextRef, inputContextRef, streamRef, processorRef, sourceRef,
          sessionRef, nextStartTimeRef, sourcesRef, transcriptRef,
          micRequest, socket, sessionPromise, created, released, clock, bufs,
          timers, queue, sent, windows, events, interrupts, toggles, cleanups,
          closedEarly,
          scheduledSince, fired, justCleaned>>

(* ------------------------------ helpers -------------------------------- *)
\* onEndSession was not called yet
NotHandedOff == [given |-> FALSE, text |-> <<>>]

\* a hand-off of the empty string, whatever was accumulated
HandOffEmpty(t) == [given |-> TRUE, text |-> <<>>]

\* onEndSession was called with the string t
HandOff(t) == [given |-> TRUE, text |-> t]

\* a resource that exists and was never released
Held(r) == r \in created /\ released[r] = 0

\* the resources held, and "playback" when a playback handle is in the active set
StillHeld ==
    {r \in Resources : Held(r)} \cup (IF sourcesRef # {} THEN {"playback"} ELSE {})

(* ------------------------------- Init ---------------------------------- *)
\* the state of a LiveSession instance before it is mounted
FreshSession ==
    /\ isConnected = FALSE /\ error = NoError /\ isMuted = FALSE /\ isAiSpeaking = FALSE
    /\ audioContextRef = NULL /\ inputContextRef = NULL /\ streamRef = NULL
    /\ processorRef = NULL /\ sourceRef = NULL /\ sessionRef = NULL
    /\ nextStartTimeRef = 0 /\ sourcesRef = {} /\ transcriptRef = <<>>
    /\ micRequest = "none" /\ socket = "none" /\ sessionPromise = "none"
    /\ created = {} /\ released = [r \in Resources |-> 0]
    /\ bufs = <<>> /\ timers = <<>> /\ queue = <<>> /\ sent = <<>>
    /\ windows = <<>> /\ events = <<>> /\ interrupts = 0 /\ toggles = 0 /\ cleanups = 0
    /\ closedEarly = FALSE
    /\ scheduledSince = 0 /\ fired = 0

Init ==
    /\ mode = "IDLE" /\ userPlan = NULL /\ currentScenario = NULL
    /\ isGeneratingPlan = FALSE /\ handedOff = NotHandedOff /\ sessions = 0
    /\ mounted = FALSE
    /\ FreshSession
    /\ clock = 0
    /\ justCleaned = FALSE

(* --------------------- App.tsx: starting a session --------------------- *)
Scenarios == {"1", "2"}

\* new AudioContext(...) twice, then the call of getUserMedia
\* (connectToLiveApi up to its first await)
connectToLiveApi_begin ==
    /\ inputContextRef' = CTX
    /\ audioContextRef' = CTX
    /\ created' = {"inputContext", "outputContext"}
    /\ micRequest' = "pending"

\* a LiveSession instance is mounted: useState/useRef initial values, then the
\* effect runs connectToLiveApi
MountLiveSession ==
    /\ mounted' = TRUE
    /\ sessions' = sessions + 1
    /\ isConnected' = FALSE /\ error' = NoError /\ isMuted' = FALSE /\ isAiSpeaking' = FALSE
    /\ streamRef' = NULL /\ processorRef' = NULL /\ sourceRef' = NULL /\ sessionRef' = NULL
    /\ nextStartTimeRef' = 0 /\ sourcesRef' = {} /\ transcriptRef' = <<>>
    /\ socket' = "none" /\ sessionPromise' = "none"
    /\ released' = [r \in Resources |-> 0]
    /\ bufs' = <<>> /\ timers' = <<>> /\ queue' = <<>> /\ sent' = <<>>
    /\ windows' = <<>> /\ events' = <<>> /\ interrupts' = 0 /\ toggles' = 0 /\ cleanups' = 0
    /\ closedEarly' = FALSE
    /\ scheduledSince' = 0 /\ fired' = 0
    /\ connectToLiveApi_begin

\* the buttons "Start Level Assessment" and "Retake Assessment"
StartAssessment ==
    /\ mode = "IDLE" /\ ~mounted /\ sessions < MaxSessions
    /\ mode' = "ASSESSMENT"
    /\ MountLiveSession
    /\ handedOff' = NotHandedOff
    /\ justCleaned' = FALSE
    /\ UNCHANGED <<userPlan, currentScenario, isGeneratingPlan, clock>>

startPractice ==
    /\ mode = "IDLE" /\ ~mounted /\ sessions < MaxSessions
    /\ userPlan # NULL
    /\ \E scenario \in Scenarios : currentScenario' = scenario
    /\ mode' = "PRACTICE"
    /\ MountLiveSession
    /\ handedOff' = NotHandedOff
    /\ justCleaned' = FALSE
    /\ UNCHANGED <<userPlan, isGeneratingPlan, clock>>

(* --------------------- LiveSession.tsx: connecting --------------------- *)
\* getUserMedia resolves: streamRef is set and ai.live.connect is called
MicGranted ==
    /\ micRequest = "pending"
    /\ micRequest' = "granted"
    /\ streamRef' = STREAM
    /\ created' = created \cup {"stream"}
    /\ socket' = "connecting"
    /\ sessionPromise' = "pending"
    /\ sessionRef' = PROMISE
    /\ justCleaned' = FALSE
    /\ UNCHANGED <<appVars, mounted, uiVars, audioContextRef, inputContextRef,
                   processorRef, sourceRef, nextStartTimeRef, sourcesRef,
                   transcriptRef, released, clock, bufs, timers, capVars, histVars>>

\* a catch block that logs the rejection and sets no error
MicDeniedSilently ==
    /\ micRequest = "pending"
    /\ micRequest' = "denied"
    /\ justCleaned' = FALSE
    /\ UNCHANGED <<appVars, mounted, uiVars, refVars, nextStartTimeRef, sourcesRef,
                   transcriptRef, socket, sessionPromise, resVars, clock, bufs,
                   timers, capVars, histVars>>

\* getUserMedia rejects: the catch block
MicDenied ==
    /\ micRequest = "pending"
    /\ micRequest' = "denied"
    /\ error' = ConnectFailed
    /\ justCleaned' = FALSE
    /\ UNCHANGED <<appVars, mounted, isConnected, isMuted, isAiSpeaking, refVars,
                   nextStartTimeRef, sourcesRef, transcriptRef, socket,
                   sessionPromise, resVars, clock, bufs, timers, capVars, histVars>>

\* startAudioInput: nothing without an input context, else the two capture nodes
startAudioInput ==
    IF inputContextRef = NULL
    THEN UNCHANGED <<sourceRef, processorRef, created>>
    ELSE /\ sourceRef' = NODE
         /\ processorRef' = NODE
         /\ created' = created \cup {"source", "processor"}

onopen ==
    /\ socket = "connecting"
    /\ socket' = "open"
    /\ isConnected' = TRUE
    /\ startAudioInput
    /\ justCleaned' = FALSE
    /\ UNCHANGED <<appVars, mounted, error, isMuted, isAiSpeaking, audioContextRef,
                   inputContextRef, streamRef, sessionRef, nextStartTimeRef,
                   sourcesRef, transcriptRef, micRequest, sessionPromise, released,
                   clock, bufs, timers, capVars, histVars>>

onclose ==
    /\ socket \in {"open", "errored"}
    /\ socket' = "closed"
    /\ isConnected' = FALSE
    /\ justCleaned' = FALSE
    /\ UNCHANGED <<appVars, mounted, error, isMuted, isAiSpeaking, refVars,
                   nextStartTimeRef, sourcesRef, transcriptRef, micRequest,
                   sessionPromise, resVars, clock, bufs, timers, capVars, histVars>>

\* an onerror that also stops the tracks of the microphone stream
onerrorStopsStream ==
    /\ socket \in {"connecting", "open"}
    /\ socket' = IF socket = "open" THEN "errored" ELSE "refused"
    /\ error' = ConnectionLost
    /\ isConnected' = FALSE
    /\ released' = [released EXCEPT !["stream"] = @ + 1]
    /\ streamRef' = NULL
    /\ justCleaned' = FALSE
    /\ UNCHANGED <<appVars, mounted, isMuted, isAiSpeaking, audioContextRef,
                   inputContextRef, processorRef, sourceRef, sessionRef,
                   nextStartTimeRef, sourcesRef, transcriptRef, micRequest,
                   sessionPromise, created, clock, bufs, timers, capVars, histVars>>

onerror ==
    /\ socket \in {"connecting", "open"}
    /\ socket' = IF socket = "open" THEN "errored" ELSE "refused"
    /\ error' = ConnectionLost
    /\ isConnected' = FALSE
    /\ justCleaned' = FALSE
    /\ UNCHANGED <<appVars, mounted, isMuted, isAiSpeaking, refVars,
                   nextStartTimeRef, sourcesRef, transcriptRef, micRequest,
                   sessionPromise, resVars, clock, bufs, timers, capVars, histVars>>

\* the promise of ai.live.connect resolves with the session: the callbacks
\* registered with sessionPromise.then run in the order they were registered
SessionResolved ==
    /\ sessionPromise = "pending"
    /\ socket \in {"open", "errored", "closed"}
    /\ sessionPromise' = "resolved"
    /\ sent' = sent \o queue
    /\ queue' = <<>>
    /\ justCleaned' = FALSE
    /\ UNCHANGED <<appVars, mounted, uiVars, refVars, nextStartTimeRef, sourcesRef,
                   transcriptRef, micRequest, socket, resVars, clock, bufs, timers,
                   windows, histVars>>

\* the status indicator of the header: error ? 'Error' : isConnected ? 'Connected'
\* : 'Connecting...'
Status ==
    IF error # NoError THEN "Error"
    ELSE IF isConnected THEN "Connected" ELSE "Connecting..."

(* ----------------------- LiveSession.tsx: cleanup ---------------------- *)
\* connectToLiveApi waits for getUserMedia, or the connection is not open yet
Suspended == micRequest = "pending" \/ socket = "connecting"

\* a reference that is left in place after its resource was released
LeftInPlace(ref) == ref

\* "x.current = null" after a resource was released
Nulled(ref) == NULL

\* source.stop() on every handle of the set
StopAll(bs, set) ==
    [i \in DOMAIN bs |-> IF i \in set THEN [bs[i] EXCEPT !.state = "stopping"] ELSE bs[i]]

ReleasedBy(ref) == IF ref # NULL THEN 1 ELSE 0

cleanup ==
    /\ released' = [released EXCEPT
            !["processor"] = @ + ReleasedBy(processorRef),
            !["source"] = @ + ReleasedBy(sourceRef),
            !["stream"] = @ + ReleasedBy(streamRef),
            !["inputContext"] = @ + ReleasedBy(inputContextRef),
            !["outputContext"] = @ + ReleasedBy(audioContextRef)]
    /\ processorRef' = IF processorRef # NULL THEN Nulled(processorRef) ELSE processorRef
    /\ sourceRef' = IF sourceRef # NULL THEN Nulled(sourceRef) ELSE sourceRef
    /\ streamRef' = IF streamRef # NULL THEN Nulled(streamRef) ELSE streamRef
    /\ inputContextRef' = IF inputContextRef # NULL THEN Nulled(inputContextRef) ELSE inputContextRef
    /\ audioContextRef' = IF audioContextRef # NULL THEN Nulled(audioContextRef) ELSE audioContextRef
    /\ bufs' = StopAll(bufs, sourcesRef)
    /\ sourcesRef' = {}
    /\ cleanups' = cleanups + 1
    /\ closedEarly' = (closedEarly \/ Suspended)
    /\ UNCHANGED <<sessionRef, created>>

\* the End button: cleanup, then onEndSession(transcriptRef.current), which is
\* App's handleSessionEnd up to its await
handleEndSession ==
    /\ mounted /\ mode \in {"ASSESSMENT", "PRACTICE"}
    /\ cleanup
    /\ handedOff' = HandOff(transcriptRef)
    /\ IF mode = "ASSESSMENT"
       THEN /\ mode' = "GENERATING_PLAN"
            /\ isGeneratingPlan' = TRUE
            /\ UNCHANGED currentScenario
       ELSE /\ mode' = "IDLE"
            /\ currentScenario' = NULL
            /\ UNCHANGED isGeneratingPlan
    /\ justCleaned' = TRUE
    /\ UNCHANGED <<userPlan, sessions, mounted, uiVars, nextStartTimeRef,
                   transcriptRef, connVars, clock, timers, capVars, events,
                   interrupts, toggles, scheduledSince, fired>>

\* the component leaves the tree: the effect's cleanup function
Unmount ==
    /\ mounted /\ mode \notin {"ASSESSMENT", "PRACTICE"}
    /\ cleanup
    /\ mounted' = FALSE
    /\ justCleaned' = TRUE
    /\ UNCHANGED <<appVars, uiVars, nextStartTimeRef, transcriptRef, connVars, clock,
                   timers, capVars, events, interrupts, toggles, scheduledSince, fired>>

\* a handleSessionEnd whose catch sets no fallback plan: a plan only on success
PlanSettledWithoutFallback ==
    /\ mode = "GENERATING_PLAN" /\ isGeneratingPlan
    /\ \E plan \in {"plan", userPlan} : userPlan' = plan
    /\ mode' = "IDLE"
    /\ isGeneratingPlan' = FALSE
    /\ justCleaned' = FALSE
    /\ UNCHANGED <<currentScenario, handedOff, sessions, mounted, uiVars, refVars,
                   nextStartTimeRef, sourcesRef, transcriptRef, connVars, resVars,
                   clock, bufs, timers, capVars, histVars>>

\* generateTrainingPlan resolves or throws: the rest of handleSessionEnd
PlanSettled ==
    /\ mode = "GENERATING_PLAN" /\ isGeneratingPlan
    /\ \E plan \in {"plan", "fallback"} : userPlan' = plan
    /\ mode' = "IDLE"
    /\ isGeneratingPlan' = FALSE
    /\ justCleaned' = FALSE
    /\ UNCHANGED <<currentScenario, handedOff, sessions, mounted, uiVars, refVars,
                   nextStartTimeRef, sourcesRef, transcriptRef, connVars, resVars,
                   clock, bufs, timers, capVars, histVars>>

(* ------------------ LiveSession.tsx: capture and mute ------------------ *)
\* a mute button that stops the tracks of the microphone stream when it mutes
toggleMuteStopsStream ==
    /\ mounted /\ toggles < MaxToggles
    /\ isMuted' = ~isMuted
    /\ toggles' = toggles + 1
    /\ released' = [released EXCEPT !["stream"] = IF isMuted THEN @ ELSE @ + 1]
    /\ streamRef' = IF isMuted THEN streamRef ELSE NULL
    /\ justCleaned' = FALSE
    /\ UNCHANGED <<appVars, mounted, isConnected, error, isAiSpeaking, audioContextRef,
                   inputContextRef, processorRef, sourceRef, sessionRef,
                   nextStartTimeRef, sourcesRef, transcriptRef, connVars, created,
                   clock, bufs, timers, capVars, events, interrupts, cleanups,
                   closedEarly, scheduledSince, fired>>

toggleMute ==
    /\ mounted /\ toggles < MaxToggles
    /\ isMuted' = ~isMuted
    /\ toggles' = toggles + 1
    /\ justCleaned' = FALSE
    /\ UNCHANGED <<appVars, mounted, isConnected, error, isAiSpeaking, refVars,
                   nextStartTimeRef, sourcesRef, transcriptRef, connVars, resVars,
                   clock, bufs, timers, capVars, events, interrupts, cleanups,
                   closedEarly, scheduledSince, fired>>

\* the isMuted that processor.onaudioprocess reads: the handler is created inside
\* startAudioInput, called from onopen, a callback built by the connectToLiveApi of
\* the first render (the effect has no dependencies), so it sees that render's
\* constant, the initial state of useState(false)
onaudioprocess_isMuted == FALSE

\* the script processor runs while it is connected in an open input context
Capturing == Held("processor") /\ Held("inputContext")

\* a send registered twice for the same frame
SendTwice(promise, q, s, frame) ==
    IF promise = "resolved" THEN <<q, s \o <<frame, frame>> >>
    ELSE <<q \o <<frame, frame>>, s>>

\* sessionPromise.then(session => session.sendRealtimeInput(...)): the queue and the
\* frames sent, after the callback was registered for the frame
ThenSend(promise, q, s, frame) ==
    IF promise = "resolved" THEN <<q, Append(s, frame)>> ELSE <<Append(q, frame), s>>

\* one capture window: processor.onaudioprocess
onaudioprocess ==
    /\ Capturing
    /\ Len(windows) < MaxWindows
    /\ LET frame == Len(windows) + 1
           dropped == onaudioprocess_isMuted
       IN /\ windows' = Append(windows, [muted |-> isMuted, dropped |-> dropped,
                                         terminal |-> socket \in {"errored", "closed"}])
          /\ IF dropped
             THEN UNCHANGED <<queue, sent>>
             ELSE LET after == ThenSend(sessionPromise, queue, sent, frame)
                  IN queue' = after[1] /\ sent' = after[2]
    /\ justCleaned' = FALSE
    /\ UNCHANGED <<appVars, mounted, uiVars, refVars, nextStartTimeRef, sourcesRef,
                   transcriptRef, connVars, resVars, clock, bufs, timers, histVars>>

(* --------------- LiveSession.tsx: handleServerMessage ------------------ *)
\* a serverContent message; audio is the duration of the buffer that
\* modelTurn.parts[0].inlineData.data decodes to, 0 without inlineData
Msg(i, tc, it, ot, a) ==
    [interrupted |-> i, turnComplete |-> tc, inputText |-> it, outputText |-> ot,
     audio |-> a]

\* an interruption that left the scheduling pointer where it was
KeepStartTime == nextStartTimeRef

\* the value nextStartTimeRef is reset to by an interruption
ResetStartTime == 0

\* "User: ${text}\n" and "Tutor: ${text}\n"
UserLine(text) == <<UserPrefix, text, Newline>>
TutorLine(text) == <<TutorPrefix, text, Newline>>

\* a transcript that keeps only what the message carries
Overwrite(transcript, m) ==
    LET t1 == IF m.inputText # NoText THEN UserLine(m.inputText) ELSE transcript
    IN IF m.outputText # NoText THEN TutorLine(m.outputText) ELSE t1

\* transcriptRef.current after the two "+=" of a message
Accumulate(transcript, m) ==
    LET t1 == IF m.inputText # NoText THEN transcript \o UserLine(m.inputText)
              ELSE transcript
    IN IF m.outputText # NoText THEN t1 \o TutorLine(m.outputText) ELSE t1

\* the transcription events a message carries, in the order of its fields
EventsOf(m) ==
    LET open == audioContextRef # NULL
        u == IF m.inputText # NoText
             THEN <<[speaker |-> "user", text |-> m.inputText,
                     interrupted |-> m.interrupted, open |-> open]>>
             ELSE <<>>
        t == IF m.outputText # NoText
             THEN <<[speaker |-> "tutor", text |-> m.outputText,
                     interrupted |-> m.interrupted, open |-> open]>>
             ELSE <<>>
    IN u \o t

\* an inbound buffer whose decode has begun
NewBuffer(d) ==
    [dur |-> d, state |-> "decoding", start |-> 0, epoch |-> interrupts]

\* handleServerMessage up to its await (or to its end)
handleServerMessage(m) ==
    IF audioContextRef = NULL
    THEN UNCHANGED <<sourcesRef, nextStartTimeRef, isAiSpeaking, transcriptRef, bufs,
                     interrupts, scheduledSince>>
    ELSE IF m.interrupted
    THEN /\ bufs' = StopAll(bufs, sourcesRef)
         /\ sourcesRef' = {}
         /\ nextStartTimeRef' = ResetStartTime
         /\ isAiSpeaking' = FALSE
         /\ interrupts' = interrupts + 1
         /\ scheduledSince' = 0
         /\ UNCHANGED transcriptRef
    ELSE /\ transcriptRef' = Accumulate(transcriptRef, m)
         /\ IF m.audio > 0
            THEN /\ isAiSpeaking' = TRUE
                 /\ bufs' = Append(bufs, NewBuffer(m.audio))
            ELSE /\ isAiSpeaking' = (IF m.turnComplete THEN FALSE ELSE isAiSpeaking)
                 /\ UNCHANGED bufs
         /\ UNCHANGED <<sourcesRef, nextStartTimeRef, interrupts, scheduledSince>>

\* the connection delivers a message of the set M
onmessage(M) ==
    /\ socket = "open"
    /\ \E m \in M :
        /\ m.interrupted => interrupts < MaxInterrupts
        /\ m.audio > 0 => Len(bufs) < MaxBuffers
        /\ Len(events) + Len(EventsOf(m)) <= MaxEvents
        /\ handleServerMessage(m)
        /\ events' = events \o EventsOf(m)
        /\ justCleaned' = FALSE
    /\ UNCHANGED <<appVars, mounted, isConnected, error, isMuted, refVars, connVars,
                   resVars, clock, timers, capVars, toggles, cleanups, closedEarly,
                   fired>>

\* the completion order of the decodes in flight: decodeAudioData is awaited, and
\* each awaited decode may settle at any later time
DecodeSettles(b) == bufs[b].state = "decoding"

\* a start that is always the current time, whatever was scheduled before
ScheduleNow(nextStartTime, currentTime) == currentTime

\* "if nextStartTime is in the past, reset it to now"
ScheduleStart(nextStartTime, currentTime) ==
    IF nextStartTime < currentTime THEN currentTime ELSE nextStartTime

\* the continuation of handleServerMessage after the await: schedule the buffer
decoded ==
    \E b \in DOMAIN bufs :
        /\ DecodeSettles(b)
        /\ LET currentTime == clock
               start == ScheduleStart(nextStartTimeRef, currentTime)
           IN /\ bufs' = [bufs EXCEPT ![b] =
                            [@ EXCEPT !.state = "scheduled", !.start = start]]
              /\ nextStartTimeRef' = start + bufs[b].dur
              /\ sourcesRef' = sourcesRef \cup {b}
              /\ scheduledSince' = scheduledSince + 1
        /\ justCleaned' = FALSE
        /\ UNCHANGED <<appVars, mounted, uiVars, refVars, transcriptRef, connVars,
                       resVars, clock, timers, capVars, events, interrupts, toggles,
                       cleanups, closedEarly, fired>>

\* a catch block that treats a failed decode as the end of playback: it resets the
\* timeline and reports an error
decodeFailedFatally ==
    \E b \in DOMAIN bufs :
        /\ DecodeSettles(b)
        /\ bufs' = [bufs EXCEPT ![b] = [@ EXCEPT !.state = "failed"]]
        /\ nextStartTimeRef' = ResetStartTime
        /\ error' = ConnectionLost
        /\ justCleaned' = FALSE
        /\ UNCHANGED <<appVars, mounted, isConnected, isMuted, isAiSpeaking, refVars,
                       sourcesRef, transcriptRef, connVars, resVars, clock, timers,
                       capVars, histVars>>

\* the decode rejects: the catch block logs and drops the buffer
decodeFailed ==
    \E b \in DOMAIN bufs :
        /\ DecodeSettles(b)
        /\ bufs' = [bufs EXCEPT ![b] = [@ EXCEPT !.state = "failed"]]
        /\ justCleaned' = FALSE
        /\ UNCHANGED <<appVars, mounted, uiVars, refVars, nextStartTimeRef, sourcesRef,
                       transcriptRef, connVars, resVars, clock, timers, capVars,
                       histVars>>

\* an onended that also rewinds the timeline when the active set empties
onendedRewinds ==
    \E b \in DOMAIN bufs :
        /\ \/ bufs[b].state = "stopping"
           \/ bufs[b].state = "scheduled" /\ clock >= bufs[b].start + bufs[b].dur
        /\ bufs' = [bufs EXCEPT ![b] = [@ EXCEPT !.state = "ended"]]
        /\ sourcesRef' = sourcesRef \ {b}
        /\ timers' = IF sourcesRef \ {b} = {} THEN Append(timers, clock + GraceWindow)
                     ELSE timers
        /\ nextStartTimeRef' = IF sourcesRef \ {b} = {} THEN ResetStartTime
                               ELSE nextStartTimeRef
        /\ justCleaned' = FALSE
        /\ UNCHANGED <<appVars, mounted, uiVars, refVars, transcriptRef, connVars,
                       resVars, clock, capVars, histVars>>

\* an onended without the setTimeout: speaking goes off as soon as the set empties
onendedAtOnce ==
    \E b \in DOMAIN bufs :
        /\ \/ bufs[b].state = "stopping"
           \/ bufs[b].state = "scheduled" /\ clock >= bufs[b].start + bufs[b].dur
        /\ bufs' = [bufs EXCEPT ![b] = [@ EXCEPT !.state = "ended"]]
        /\ sourcesRef' = sourcesRef \ {b}
        /\ isAiSpeaking' = (IF sourcesRef \ {b} = {} THEN FALSE ELSE isAiSpeaking)
        /\ justCleaned' = FALSE
        /\ UNCHANGED <<appVars, mounted, isConnected, error, isMuted, refVars,
                       nextStartTimeRef, transcriptRef, connVars, resVars, clock,
                       timers, capVars, histVars>>

\* source.onended: the buffer played to its end, or stop() was called on it
onended ==
    \E b \in DOMAIN bufs :
        /\ \/ bufs[b].state = "stopping"
           \/ bufs[b].state = "scheduled" /\ clock >= bufs[b].start + bufs[b].dur
        /\ bufs' = [bufs EXCEPT ![b] = [@ EXCEPT !.state = "ended"]]
        /\ sourcesRef' = sourcesRef \ {b}
        /\ timers' = IF sourcesRef \ {b} = {} THEN Append(timers, clock + GraceWindow)
                     ELSE timers
        /\ justCleaned' = FALSE
        /\ UNCHANGED <<appVars, mounted, uiVars, refVars, nextStartTimeRef,
                       transcriptRef, connVars, resVars, clock, capVars, histVars>>

\* the setTimeout callback of onended
timeout ==
    \E i \in DOMAIN timers :
        /\ clock >= timers[i]
        /\ timers' = SubSeq(timers, 1, i - 1) \o SubSeq(timers, i + 1, Len(timers))
        /\ isAiSpeaking' = (IF sourcesRef = {} THEN FALSE ELSE isAiSpeaking)
        /\ fired' = fired + 1
        /\ justCleaned' = FALSE
        /\ UNCHANGED <<appVars, mounted, isConnected, error, isMuted, refVars,
                       nextStartTimeRef, sourcesRef, transcriptRef, connVars, resVars,
                       clock, bufs, capVars, events, interrupts, toggles, cleanups,
                       closedEarly, scheduledSince>>

\* time passes
Tick ==
    /\ clock < MaxClock
    /\ clock' = clock + 1
    /\ justCleaned' = FALSE
    /\ UNCHANGED <<appVars, mounted, uiVars, refVars, nextStartTimeRef, sourcesRef,
                   transcriptRef, connVars, resVars, bufs, timers, capVars, histVars>>

(* --------------------------- specifications ---------------------------- *)
\* every serverContent message
AllMsgs ==
    {Msg(i, tc, it, ot, a) : i \in BOOLEAN, tc \in BOOLEAN, it \in Texts \cup {NoText},
                             ot \in Texts \cup {NoText}, a \in 0..MaxDur}

\* the whole program.  Its state space is the product of those of capture, playback,
\* transcript and teardown; the claims are checked under the specifications below,
\* each of which takes the actions of one of these parts, with the messages that
\* part reads.
Next ==
    \/ StartAssessment
    \/ startPractice
    \/ PlanSettled
    \/ MicGranted
    \/ MicDenied
    \/ onopen
    \/ onclose
    \/ onerror
    \/ SessionResolved
    \/ toggleMute
    \/ onaudioprocess
    \/ onmessage(AllMsgs)
    \/ decoded
    \/ decodeFailed
    \/ onended
    \/ timeout
    \/ Tick
    \/ handleEndSession
    \/ Unmount

Spec == Init /\ [][Next]_vars

\* messages about playback: an interruption, audio, the end of a turn
AudioMsgs ==
    {Msg(TRUE, FALSE, NoText, NoText, 0)}
    \cup {Msg(FALSE, tc, NoText, NoText, a) : tc \in BOOLEAN, a \in 0..MaxDur}

\* messages about the transcript, with or without the interrupted flag
TextMsgs ==
    {Msg(i, FALSE, it, ot, 0) : i \in BOOLEAN, it \in Texts \cup {NoText},
                                ot \in Texts \cup {NoText}}

\* playback: one session receiving audio
NextPlayback ==
    \/ StartAssessment
    \/ MicGranted
    \/ onopen
    \/ onmessage(AudioMsgs)
    \/ decoded
    \/ decodeFailed
    \/ onended
    \/ timeout
    \/ Tick

SpecPlayback == Init /\ [][NextPlayback]_vars

\* teardown: one session that is ended at any point of connecting or of playback,
\* all within one unit of the clock
NextTeardown ==
    \/ StartAssessment
    \/ MicGranted
    \/ MicDenied
    \/ onopen
    \/ onmessage(AudioMsgs)
    \/ decoded
    \/ decodeFailed
    \/ onended
    \/ handleEndSession
    \/ Unmount

SpecTeardown == Init /\ [][NextTeardown]_vars

\* capture: one session sending frames
NextCapture ==
    \/ StartAssessment
    \/ MicGranted
    \/ onopen
    \/ SessionResolved
    \/ onaudioprocess
    \/ toggleMute
    \/ onclose
    \/ onerror
    \/ handleEndSession
    \/ Unmount

SpecCapture == Init /\ [][NextCapture]_vars

\* the sessions of the application: connecting, the transcript, teardown
NextSession ==
    \/ StartAssessment
    \/ startPractice
    \/ MicGranted
    \/ onopen
    \/ onclose
    \/ onmessage(TextMsgs)
    \/ handleEndSession
    \/ Unmount
    \/ PlanSettled

SpecSession == Init /\ [][NextSession]_vars

\* the playback pointer: one session that receives all but one of its audio
\* messages, while the user toggles the mute button and the connection closes or
\* fails
PointerMsgs == {m \in AudioMsgs : m.audio > 0 => Len(bufs) < MaxBuffers - 1}

NextPointer ==
    \/ StartAssessment
    \/ MicGranted
    \/ onopen
    \/ onclose
    \/ onerror
    \/ toggleMute
    \/ onmessage(PointerMsgs)
    \/ decoded
    \/ decodeFailed
    \/ onended
    \/ timeout
    \/ Tick

SpecPointer == Init /\ [][NextPointer]_vars

\* the mode machine of the application: sessions are started and ended, and the plan
\* request that handleSessionEnd awaits settles: it resolves or it rejects
NextApp ==
    \/ StartAssessment
    \/ startPractice
    \/ MicGranted
    \/ MicDenied
    \/ onopen
    \/ handleEndSession
    \/ Unmount
    \/ PlanSettled

SpecApp == Init /\ [][NextApp]_vars /\ WF_vars(PlanSettled)

(* ------------------------------- claims -------------------------------- *)
\* the buffer was given to source.start
Started(b) == bufs[b].state \in {"scheduled", "stopping", "ended"}

\* C1: of two buffers whose messages arrived with no interruption between them or
\* since, the one that arrived later starts no earlier than the start of the other
\* plus the other's duration.
C1_ArrivalOrder ==
    \A a, b \in DOMAIN bufs :
        (a < b /\ Started(a) /\ Started(b)
           /\ bufs[a].epoch = interrupts /\ bufs[b].epoch = interrupts)
        => bufs[b].start >= bufs[a].start + bufs[a].dur

\* C2: a buffer whose message arrived before an interruption that was processed is
\* not in the active set and is not scheduled to play.
C2_NoSurvivor ==
    \A b \in DOMAIN bufs :
        bufs[b].epoch < interrupts => b \notin sourcesRef /\ bufs[b].state # "scheduled"

\* C4: the step that processes an interrupted message stops every handle of the
\* active set, empties the set, sets nextStartTime to 0 and the speaking state to
\* false; the first buffer scheduled after it starts at the clock time of its
\* scheduling.
C4_Interruption ==
    [][ /\ interrupts' = interrupts + 1 =>
            /\ \A b \in sourcesRef : bufs'[b].state = "stopping"
            /\ sourcesRef' = {}
            /\ nextStartTimeRef' = 0
            /\ isAiSpeaking' = FALSE
        /\ \A b \in DOMAIN bufs :
            (/\ interrupts >= 1 /\ interrupts' = interrupts /\ scheduledSince = 0
             /\ b \in DOMAIN bufs'
             /\ bufs[b].state = "decoding" /\ bufs'[b].state = "scheduled")
            => bufs'[b].start = clock
      ]_vars

\* C4, reached: a handle was stopped by an interruption while the speaking state was
\* on, and the first buffer scheduled after it starts at the clock time, past 0
C4_Witness ==
    /\ interrupts = 1 /\ scheduledSince = 1 /\ clock > 0
    /\ \E a, b \in DOMAIN bufs :
        /\ bufs[a].state = "stopping" /\ bufs[a].epoch = 0
        /\ bufs[b].state = "scheduled" /\ bufs[b].start = clock
        /\ sourcesRef = {b}

\* the frames produced so far, sent or still waiting on the session promise
Outbound == sent \o queue

\* C3: no frame is produced or sent for a capture window that elapsed while the
\* microphone was muted.
C3_MutedSendsNothing ==
    \A w \in DOMAIN windows :
        windows[w].muted => \A i \in DOMAIN Outbound : Outbound[i] # w

\* the session is in a terminal state: onerror or onclose has fired, or cleanup ran
Terminal == socket \in {"errored", "closed", "refused"} \/ cleanups >= 1

\* C7: once the session is terminal, no frame is given to sendRealtimeInput.
C7_NoSendAfterTerminal == [][Terminal => sent' = sent]_vars

\* C8: the frames sent, followed by those still waiting on the session promise, are
\* exactly the capture windows the handler did not drop, each once and in capture
\* order, and nothing waits once the promise has resolved.
C8_FramesInCaptureOrder ==
    /\ \A i, j \in DOMAIN Outbound : i < j => Outbound[i] < Outbound[j]
    /\ {Outbound[i] : i \in DOMAIN Outbound} = {w \in DOMAIN windows : ~windows[w].dropped}
    /\ sessionPromise = "resolved" => queue = <<>>

\* C8, reached: three windows were captured, the first before the session promise
\* resolved, with the mute button clicked twice in between, and all were sent
C8_Witness ==
    /\ Len(windows) = 3 /\ toggles = 2 /\ ~isMuted
    /\ sent = <<1, 2, 3>> /\ sessionPromise = "resolved"
    /\ ~windows[1].terminal

\* C5: no resource is released more than once; right after a call of cleanup every
\* resource created so far was released exactly once; and a call of cleanup that
\* follows another call directly changes nothing of the session.
C5_CleanupIdempotent ==
    /\ [](\A r \in Resources : released[r] <= 1)
    /\ [](justCleaned => \A r \in created : released[r] = 1)
    /\ [][(justCleaned /\ cleanups' = cleanups + 1) =>
            UNCHANGED <<uiVars, refVars, nextStartTimeRef, sourcesRef, transcriptRef,
                        connVars, resVars, bufs, timers, capVars>>]_vars

\* C5, reached: a connected session that was playing is ended with the End button
\* and then unmounted; all five resources were released
C5_Witness ==
    /\ cleanups = 2 /\ ~mounted /\ justCleaned
    /\ created = Resources
    /\ \E b \in DOMAIN bufs : bufs[b].state = "stopping"

\* connectToLiveApi has nothing pending any more
Settled == micRequest \in {"granted", "denied"} /\ socket # "connecting"

\* C6: when cleanup ran while connectToLiveApi was suspended, the component is gone
\* and the pending steps have settled, no stream is held un-stopped, no audio
\* context is open and capture is not running.
C6_CloseBeforeConnected ==
    (closedEarly /\ ~mounted /\ Settled) =>
        /\ ~Held("stream") /\ ~Held("inputContext") /\ ~Held("outputContext")
        /\ ~Capturing

\* the line of a transcription event, tagged with its speaker
LineOf(e) ==
    <<IF e.speaker = "user" THEN "User: " ELSE "Tutor: ", e.text, "\n">>

\* the lines of a sequence of events, concatenated in order
RECURSIVE LinesOf(_)
LinesOf(es) == IF es = <<>> THEN <<>> ELSE LineOf(Head(es)) \o LinesOf(Tail(es))

\* the event was handed to the accumulator: its message was no interruption and
\* arrived while the session's output context existed
Accepted(e) == e.open /\ ~e.interrupted

C10_HandOff ==
    /\ [](handedOff.given =>
            /\ handedOff.text = transcriptRef
            /\ handedOff.text = LinesOf(SelectSeq(events, Accepted)))
    /\ [][(~handedOff.given /\ handedOff'.given) =>
            /\ cleanups' = cleanups + 1
            /\ handedOff'.text = transcriptRef
            /\ transcriptRef' = transcriptRef
            /\ audioContextRef' = NULL /\ inputContextRef' = NULL /\ streamRef' = NULL
            /\ processorRef' = NULL /\ sourceRef' = NULL /\ sourcesRef' = {}]_vars

\* C10, reached: a practice session with two lines was ended, and a message that
\* came later was not added
C10_Witness ==
    /\ handedOff.given /\ Len(handedOff.text) = 6 /\ mode = "IDLE"
    /\ Len(events) = 3 /\ ~events[3].open

\* C10, reached with nothing said: the empty string is handed over
C10_WitnessEmpty == handedOff.given /\ handedOff.text = <<>> /\ events = <<>>

\* the connection reached a terminal state: onclose or onerror has fired, or the
\* open failed
Terminated == socket \in {"closed", "errored", "refused"} \/ micRequest = "denied"

\* C11: Closed and Errored are terminal: once onclose or onerror has fired (or the
\* open failed) the session is not Connected and not Connecting again, and the
\* status shown to the user is not that of a state before the end ("Connecting..."
\* or "Connected").
C11_TerminalStatus ==
    Terminated => ~isConnected /\ Status \notin {"Connecting...", "Connected"}

\* C12: at most one session is active at a time: a LiveSession is mounted and not
\* yet ended only in mode ASSESSMENT or PRACTICE, a new one is started only from
\* IDLE with no other one mounted, and no session is started while a resource of
\* the previous one (microphone stream, audio context, capture node, playback
\* handle) is still held.
C12_OneSessionAtATime ==
    /\ []((mounted /\ cleanups = 0) => mode \in {"ASSESSMENT", "PRACTICE"})
    /\ [][sessions' # sessions => mode = "IDLE" /\ ~mounted /\ StillHeld = {}]_vars

\* C13: when the microphone request is refused the failure is surfaced as the
\* session's error, the remote channel is never opened, the session is never
\* Connected, capture never starts, and the request is not made again.
C13_MicRefused ==
    /\ [](micRequest = "denied" =>
            /\ error # NoError /\ Status = "Error"
            /\ socket = "none" /\ sessionPromise = "none" /\ sessionRef = NULL
            /\ ~isConnected
            /\ ~Capturing /\ created \cap {"stream", "source", "processor"} = {}
            /\ windows = <<>> /\ sent = <<>>)
    /\ [][micRequest = "denied" => micRequest' = "denied" \/ sessions' # sessions]_vars

\* the request was refused, and the session was later ended
C13_Witness == micRequest = "denied" /\ error = ConnectFailed /\ cleanups > 0

\* the step is the catch block of a failed decode of buffer b
DecodeFails(b) ==
    bufs[b].state = "decoding" /\ b \in DOMAIN bufs' /\ bufs'[b].state = "failed"

\* C14: a decode failure is local: the buffer is skipped for good, and the step
\* leaves nextStartTime, the active set, the transcript, the connection state and
\* the error status as they were; buffers of later messages are scheduled as usual.
C14_DecodeFailureLocal ==
    [][\A b \in DOMAIN bufs :
        /\ DecodeFails(b) =>
             UNCHANGED <<nextStartTimeRef, sourcesRef, transcriptRef, isConnected,
                         error, socket, sessionPromise, timers>>
        /\ (b \in DOMAIN bufs' /\ bufs[b].state = "failed") =>
             bufs'[b].state = "failed" /\ b \notin sourcesRef'
        /\ (b \in DOMAIN bufs' /\ bufs[b].state = "decoding"
            /\ bufs'[b].state = "scheduled"
            /\ \E a \in DOMAIN bufs : bufs[a].state = "failed") =>
             /\ bufs'[b].start = ScheduleStart(nextStartTimeRef, clock)
             /\ nextStartTimeRef' = bufs'[b].start + bufs[b].dur
             /\ sourcesRef' = sourcesRef \cup {b}]_vars

\* the first buffer failed to decode, the second one was scheduled after that at
\* the start of the timeline, and the connection is still open without an error
C14_Witness ==
    /\ Len(bufs) = 2 /\ bufs[1].state = "failed" /\ bufs[2].state = "scheduled"
    /\ bufs[2].start = 0 /\ nextStartTimeRef = bufs[2].dur /\ sourcesRef = {2}
    /\ socket = "open" /\ isConnected /\ error = NoError

\* C15: "AI is speaking" is true in every state in which at least one playback
\* handle is in the active set; a turnComplete received while handles are active
\* does not switch it off.  As a property of steps: a step that is not an
\* interruption and that leaves a handle in the active set does not take the
\* speaking state from true to false.
C15_SpeakingWhileActive ==
    [][(sourcesRef # {} /\ sourcesRef' # {} /\ isAiSpeaking
        /\ interrupts' = interrupts /\ sessions' = sessions) => isAiSpeaking']_vars

\* C16: after close() no playback handle is active: the active set is empty in every
\* state after a cleanup, also when a decode was in flight at the time of the close.
C16_NoHandleAfterClose == cleanups > 0 => sourcesRef = {}

\* the event's message arrived while the session was in use (before its cleanup)
InSession(e) == e.open

\* C17: every transcription text of a message received by the session is appended
\* to the transcript, the user line before the tutor line of the same message,
\* whatever other fields (interrupted, turnComplete, audio) the message carries.
C17_EveryTextAppended ==
    transcriptRef = LinesOf(SelectSeq(events, InSession))

\* the larger of two times
Later(a, b) == IF a >= b THEN a ELSE b

\* the step schedules buffer b
Schedules(b) ==
    /\ bufs[b].state = "decoding"
    /\ b \in DOMAIN bufs' /\ bufs'[b].state = "scheduled"

\* C18: a buffer is scheduled at start = max(nextStartTime, current clock time) and
\* nextStartTime becomes start + the buffer's duration: no buffer is scheduled in
\* the past, and a buffer scheduled while nextStartTime is still ahead of the clock
\* starts exactly at the start plus the duration of a buffer scheduled before it.
C18_ScheduleAtPointer ==
    [][\A b \in DOMAIN bufs : Schedules(b) =>
        /\ bufs'[b].start = Later(nextStartTimeRef, clock)
        /\ nextStartTimeRef' = bufs'[b].start + bufs[b].dur
        /\ bufs'[b].start >= clock
        /\ nextStartTimeRef > clock =>
             \E a \in DOMAIN bufs :
                /\ Started(a)
                /\ bufs'[b].start = bufs[a].start + bufs[a].dur]_vars

\* two buffers scheduled back to back while the clock stood at 0: the second one
\* starts where the first one ends, ahead of the clock
C18_Witness ==
    /\ Len(bufs) = 2 /\ clock = 0 /\ interrupts = 0
    /\ \E a, b \in DOMAIN bufs :
        /\ a # b /\ bufs[a].state = "scheduled" /\ bufs[b].state = "scheduled"
        /\ bufs[a].start = 0 /\ bufs[b].start = bufs[a].dur /\ bufs[b].start > clock
        /\ nextStartTimeRef = bufs[b].start + bufs[b].dur

Completes(b) ==
    /\ bufs[b].state \in {"scheduled", "stopping"}
    /\ b \in DOMAIN bufs' /\ bufs'[b].state = "ended"

\* the sequence s without its i-th element
Without(s, i) == SubSeq(s, 1, i - 1) \o SubSeq(s, i + 1, Len(s))

\* C20: a completion removes the handle from the active set and never switches the
\* speaking state off by itself: when it empties the set it only starts a timer of
\* the grace window (200 ms); the timer's callback runs no earlier than its
\* deadline, and it sets the speaking state to false only if the set is empty at
\* that time: with a handle registered in between, the state is left as it is.
C20_Debounce ==
    [][/\ \A b \in DOMAIN bufs : Completes(b) =>
            /\ sourcesRef' = sourcesRef \ {b}
            /\ isAiSpeaking' = isAiSpeaking
            /\ timers' = IF sourcesRef' = {} THEN Append(timers, clock + GraceWindow)
                         ELSE timers
       /\ fired' = fired + 1 =>
            /\ \E i \in DOMAIN timers : timers[i] <= clock /\ timers' = Without(timers, i)
            /\ sourcesRef # {} => isAiSpeaking' = isAiSpeaking
            /\ sourcesRef = {} => ~isAiSpeaking'
            /\ sourcesRef' = sourcesRef]_vars

\* the first buffer played to its end and emptied the set, the second one was
\* registered within the grace window, and the timer has run: speaking is still on
C20_Witness ==
    /\ Len(bufs) = 2 /\ interrupts = 0 /\ fired = 1 /\ timers = <<>>
    /\ bufs[1].state = "ended" /\ bufs[2].state = "scheduled"
    /\ bufs[2].start > bufs[1].start + bufs[1].dur
    /\ sourcesRef = {2} /\ isAiSpeaking

\* the step is the onerror callback of the connection
ErrorFires ==
    socket \in {"connecting", "open"} /\ socket' \in {"errored", "refused"}

\* C21: a connection error moves the session to Errored and surfaces the
\* "connection lost" message, and performs no teardown: the microphone stream, both
\* audio contexts, the capture nodes, the active playback set, nextStartTime and
\* the transcript are left as they were by the step.
C21_ErrorWithoutTeardown ==
    [][ErrorFires =>
        /\ error' = ConnectionLost /\ Status' = "Error" /\ ~isConnected'
        /\ UNCHANGED <<refVars, resVars, micRequest, sourcesRef, nextStartTimeRef,
                       transcriptRef, bufs, timers, isMuted>>]_vars

\* the connection failed while a buffer was playing and capture was running: the
\* error is shown, and every resource of the session is still held
C21_Witness ==
    /\ socket = "errored" /\ error = ConnectionLost /\ Status = "Error"
    /\ \A r \in Resources : Held(r)
    /\ streamRef = STREAM /\ processorRef = NODE /\ audioContextRef = CTX
    /\ sourcesRef # {} /\ nextStartTimeRef > 0

\* C22: toggleMute changes only the local mute flag: it does not stop, disconnect
\* or re-create the microphone stream, the capture nodes or the audio contexts, and
\* it leaves the connection state, the active playback set, nextStartTime and the
\* transcript unchanged.
C22_MuteIsLocal ==
    [][toggles' = toggles + 1 =>
        /\ isMuted' = ~isMuted
        /\ UNCHANGED <<refVars, resVars, connVars, isConnected, error, isAiSpeaking,
                       sourcesRef, nextStartTimeRef, transcriptRef, bufs, timers,
                       capVars>>]_vars

\* muted and unmuted again while capture was running and a buffer was playing: the
\* resources are held, the connection is open, the buffer is still in the set
C22_Witness ==
    /\ toggles = 2 /\ ~isMuted
    /\ \A r \in Resources : Held(r)
    /\ Capturing /\ streamRef = STREAM
    /\ socket = "open" /\ isConnected
    /\ sourcesRef # {} /\ nextStartTimeRef > 0

\* nothing is left that could change the speaking state but a further message:
\* no decode is in flight, every buffer has ended or failed, no timer is pending
Quiet ==
    /\ \A b \in DOMAIN bufs : bufs[b].state \in {"ended", "failed"}
    /\ sourcesRef = {} /\ timers = <<>>

\* C23: the speaking indicator cannot stay on forever: once every buffer has ended,
\* been stopped or failed to decode and no timer is pending, so that only a further
\* message could change it, "AI is speaking" is false.
C23_SpeakingEnds == Quiet => ~isAiSpeaking

\* the dashboard, with a plan and no plan request under way
Dashboard == mode = "IDLE" /\ userPlan # NULL /\ ~isGeneratingPlan

\* C24: the mode machine always returns to the dashboard: the end of an ASSESSMENT
\* session leads to GENERATING_PLAN with the plan request under way, GENERATING_PLAN
\* is left only for IDLE with a plan and the request over, and it is left
\* eventually, whether the request succeeds or throws; the end of a PRACTICE session
\* leads straight to IDLE with no current scenario and the plan as it was.
C24_BackToDashboard ==
    /\ [][(mode = "ASSESSMENT" /\ mode' # mode) =>
            mode' = "GENERATING_PLAN" /\ isGeneratingPlan']_vars
    /\ [][(mode = "GENERATING_PLAN" /\ mode' # mode) => Dashboard']_vars
    /\ [][(mode = "PRACTICE" /\ mode' # mode) =>
            /\ mode' = "IDLE" /\ currentScenario' = NULL
            /\ userPlan' = userPlan /\ isGeneratingPlan' = isGeneratingPlan]_vars
    /\ [](mode = "GENERATING_PLAN" => isGeneratingPlan)
    /\ (mode = "GENERATING_PLAN") ~> Dashboard

\* a practice session has just been ended, after an assessment whose plan request
\* threw: the application is on the dashboard with the fallback plan
C24_Witness ==
    /\ Dashboard /\ sessions = 2 /\ mounted /\ justCleaned
    /\ userPlan = "fallback" /\ currentScenario = NULL /\ handedOff.given

====
